---- MODULE Spec2Model ----
(***************************************************************************)
(* PanelCleaner: the box registry (pcleaner/structures.py, PageData) with  *)
(* its growth, padding and overlap-resolution operations, and the stage    *)
(* invalidation trackers (pcleaner/gui/image_file.py, ProcessStep and      *)
(* ImageFile).                                                             *)
(*                                                                         *)
(* A box is the tuple <<x1, y1, x2, y2>>.  A Python None of a tuple-valued *)
(* field is the empty tuple.                                               *)
(***************************************************************************)
EXTENDS Integers, Sequences, FiniteSets, TLC

VARIABLES
    boxes,                  \* PageData.boxes
    extended_boxes,         \* PageData.extended_boxes
    merged_extended_boxes,  \* PageData.merged_extended_boxes
    reference_boxes,        \* PageData.reference_boxes
    _image_size,            \* PageData._image_size, None until first read
    metadata,               \* environment: the size "W x H" in magic.from_file(image_path), None if it holds none
    call,                   \* the name of the last PageData call
    error,                  \* the exception the last call raised, "" if none
    ncalls,                 \* number of PageData calls made so far
    profile,                \* the cfg.Profile snapshot: leaf attribute -> value
    _sensitivity_filter,    \* ProcessStep._sensitivity_filter of the tracker at hand
    _current_profile_checksum,  \* ProcessStep._current_profile_checksum, None or <<n>>
    last_marked,            \* <<the profile given to the last update_checksum>>, None if none
    steps,                  \* ImageFile.steps, None while the attribute does not exist
    image_file              \* "new", then how ImageFile.__init__ ended

pagevars == <<boxes, extended_boxes, merged_extended_boxes, reference_boxes,
              _image_size, metadata, call, error, ncalls>>

stepvars == <<profile, _sensitivity_filter, _current_profile_checksum, last_marked,
              steps, image_file>>

vars == <<pagevars, stepvars>>

-----------------------------------------------------------------------------
(* Bounds of the model. *)

\* Longest box list a page is constructed with.
MaxBoxes == 2
\* Longest extended_boxes list the overlap resolver is given on its own.
MaxResolveBoxes == 3
\* Paddings are 0 and MaxPad, grown and shrunk.
MaxPad == 1
\* Number of PageData calls in one behaviour.
MaxCalls == 2
\* Number of profile fields that differ from their default at the same time.
MaxChanged == 1

None == <<>>

Min(a, b) == IF a <= b THEN a ELSE b
Max(a, b) == IF a >= b THEN a ELSE b

BoxType == {"BOX", "EXTENDED_BOX", "MERGED_EXT_BOX", "REFERENCE_BOX"}

Paddings == {0 - MaxPad, 0, MaxPad}

\* Well-formed boxes inside a w x h image.
BoxesInside(w, h) ==
    {b \in (0 .. w) \X (0 .. h) \X (0 .. w) \X (0 .. h) : b[1] <= b[3] /\ b[2] <= b[4]}

\* Lists of at most n elements of S.
ListsUpTo(S, n) == UNION {[1 .. k -> S] : k \in 0 .. n}

\* Lexicographic order on boxes.
BoxLeq(a, b) ==
    \/ a[1] < b[1]
    \/ a[1] = b[1] /\ a[2] < b[2]
    \/ a[1] = b[1] /\ a[2] = b[2] /\ a[3] < b[3]
    \/ a[1] = b[1] /\ a[2] = b[2] /\ a[3] = b[3] /\ a[4] <= b[4]

\* The operations treat the elements of a list one by one, so a page starts
\* with one list of every multiset of boxes: the ascending one.
AscendingListsUpTo(S, n) ==
    {l \in ListsUpTo(S, n) : \A i \in DOMAIN l : i = 1 \/ BoxLeq(l[i - 1], l[i])}

ToSet(list) == {list[i] : i \in DOMAIN list}

-----------------------------------------------------------------------------
(* PageData.image_size: the cached size, read from the file on first use.  *)
(* re.search(...) is None when the metadata holds no "W x H", and         *)
(* None.groups() raises AttributeError before anything is cached.          *)

\* As image_size, but a size of 0 x 0 is assumed when the metadata holds none.
image_size_assumed ==
    IF _image_size # None THEN [raised |-> "", size |-> _image_size]
    ELSE IF metadata # None THEN [raised |-> "", size |-> metadata]
    ELSE [raised |-> "", size |-> <<0, 0>>]

image_size ==
    IF _image_size # None THEN [raised |-> "", size |-> _image_size]
    ELSE IF metadata # None THEN [raised |-> "", size |-> metadata]
    ELSE [raised |-> "AttributeError", size |-> None]

\* The name of the list boxes_from_type returns (the list itself is aliased,
\* so writes through it land in the PageData field).
boxes_from_type_misrouted(box_type) ==
    CASE box_type = "BOX" -> "merged_extended_boxes"
      [] box_type = "EXTENDED_BOX" -> "extended_boxes"
      [] box_type = "MERGED_EXT_BOX" -> "merged_extended_boxes"
      [] box_type = "REFERENCE_BOX" -> "reference_boxes"

boxes_from_type(box_type) ==
    CASE box_type = "BOX" -> "boxes"
      [] box_type = "EXTENDED_BOX" -> "extended_boxes"
      [] box_type = "MERGED_EXT_BOX" -> "merged_extended_boxes"
      [] box_type = "REFERENCE_BOX" -> "reference_boxes"

\* The list a field name refers to.
Deref(ref) ==
    CASE ref = "boxes" -> boxes
      [] ref = "extended_boxes" -> extended_boxes
      [] ref = "merged_extended_boxes" -> merged_extended_boxes
      [] ref = "reference_boxes" -> reference_boxes

\* In-place update of the list a field name refers to.
StoreThrough(ref, list) ==
    /\ boxes' = IF ref = "boxes" THEN list ELSE boxes
    /\ extended_boxes' = IF ref = "extended_boxes" THEN list ELSE extended_boxes
    /\ merged_extended_boxes' =
           IF ref = "merged_extended_boxes" THEN list ELSE merged_extended_boxes
    /\ reference_boxes' = IF ref = "reference_boxes" THEN list ELSE reference_boxes

\* The loop body of grow_boxes.
GrowBox(box, padding, image_width, image_height) ==
    << Max(box[1] - padding, 0),
       Max(box[2] - padding, 0),
       Min(box[3] + padding, image_width),
       Min(box[4] + padding, image_height) >>

\* As RightPadBox, but the left edge is moved out as well.
RightPadBox_both_sides(box, padding, image_width) ==
    << Max(box[1] - padding, 0), box[2], Min(box[3] + padding, image_width), box[4] >>

\* The loop body of right_pad_boxes.
RightPadBox(box, padding, image_width) ==
    << box[1], box[2], Min(box[3] + padding, image_width), box[4] >>

grow_boxes(padding, box_type) ==
    LET ref == boxes_from_type(box_type)
        list == Deref(ref)
        size == image_size
    IN  /\ call' = "grow_boxes"
        /\ error' = size.raised
        /\ _image_size' = size.size
        /\ IF size.raised # ""
           THEN UNCHANGED <<boxes, extended_boxes, merged_extended_boxes, reference_boxes>>
           ELSE StoreThrough(ref,
                    [i \in DOMAIN list |->
                        GrowBox(list[i], padding, size.size[1], size.size[2])])
        /\ UNCHANGED metadata

right_pad_boxes(padding, box_type) ==
    LET ref == boxes_from_type(box_type)
        list == Deref(ref)
        size == image_size
    IN  /\ call' = "right_pad_boxes"
        /\ error' = size.raised
        /\ _image_size' = size.size
        /\ IF size.raised # ""
           THEN UNCHANGED <<boxes, extended_boxes, merged_extended_boxes, reference_boxes>>
           ELSE StoreThrough(ref,
                    [i \in DOMAIN list |-> RightPadBox(list[i], padding, size.size[1])])
        /\ UNCHANGED metadata

-----------------------------------------------------------------------------
(* PageData.resolve_overlaps *)

boxes_overlap(box1, box2) ==
    LET x_overlap == (box1[1] <= box2[3]) /\ (box2[1] <= box1[3])
        y_overlap == (box1[2] <= box2[4]) /\ (box2[2] <= box1[4])
    IN  x_overlap /\ y_overlap

\* As merge_boxes, but the partner is dropped instead of merged in.
merge_boxes_keep_first(box1, box2) == box1

merge_boxes(box1, box2) ==
    << Min(box1[1], box2[1]), Min(box1[2], box2[2]),
       Max(box1[3], box2[3]), Max(box1[4], box2[4]) >>

\* The inner for loop: box merged with every element of overlapping_boxes.
RECURSIVE MergeAll(_, _)
MergeAll(box, overlapping_boxes) ==
    IF overlapping_boxes = {} THEN box
    ELSE LET b == CHOOSE x \in overlapping_boxes : TRUE
         IN  MergeAll(merge_boxes(box, b), overlapping_boxes \ {b})

\* The while loop: every merged_boxes list it can end with, one for each
\* order in which set.pop() hands out the elements of merge_queue.  The
\* overlapping boxes are collected once, against the popped box, before any
\* merging.
RECURSIVE MergeLoop(_)
MergeLoop(merge_queue) ==
    IF merge_queue = {} THEN {<<>>}
    ELSE UNION {
        LET rest == merge_queue \ {box}
            overlapping_boxes == {b \in rest : boxes_overlap(box, b)}
            merged == MergeAll(box, overlapping_boxes)
        IN  {<<merged>> \o tail : tail \in MergeLoop(rest \ overlapping_boxes)}
        : box \in merge_queue }

resolve_overlaps ==
    /\ \E merged_boxes \in MergeLoop(ToSet(extended_boxes)) :
           merged_extended_boxes' = merged_boxes
    /\ call' = "resolve_overlaps"
    /\ error' = ""
    /\ UNCHANGED <<boxes, extended_boxes, reference_boxes, _image_size, metadata>>

\* A caller assigning the dataclass field: page.extended_boxes = page.merged_extended_boxes,
\* done right after a resolve_overlaps call.
set_extended_boxes ==
    /\ call = "resolve_overlaps"
    /\ extended_boxes' = merged_extended_boxes
    /\ call' = "set_extended_boxes"
    /\ error' = ""
    /\ UNCHANGED <<boxes, merged_extended_boxes, reference_boxes, _image_size, metadata>>

-----------------------------------------------------------------------------
(* The configuration snapshot, cfg.Profile: an attrs class whose attributes *)
(* hold one attrs instance per group.  An attribute is <<class, name>>.     *)
(* The groups carry the fields image_file.py names.                        *)

\* Profile's attributes in the key order of json.dumps(sort_keys=True), each
\* with the class of the instance it holds.
ProfileGroups ==
    << [name |-> "denoiser", class |-> "DenoiserConfig"],
       [name |-> "detector", class |-> "TextDetectorConfig"],
       [name |-> "general", class |-> "GeneralConfig"],
       [name |-> "masker", class |-> "MaskerConfig"],
       [name |-> "preprocessor", class |-> "PreprocessorConfig"] >>

\* The attribute names of a group's class, in sorted key order.
GroupFields(class) ==
    CASE class = "DenoiserConfig" -> << "filter_strength" >>
      [] class = "GeneralConfig" -> << "input_size_scale" >>
      [] class = "MaskerConfig" ->
            << "debug_mask_color", "mask_growth_step_pixels", "mask_growth_steps",
               "mask_improvement_threshold", "mask_max_standard_deviation",
               "mask_selection_fast", "off_white_max_threshold" >>
      [] class = "PreprocessorConfig" ->
            << "box_min_size", "box_padding_initial", "box_right_padding_initial",
               "suspicious_box_min_size" >>
      [] class = "TextDetectorConfig" -> << "model_path" >>

\* attrs.fields(cls).name
pro(name) == <<"Profile", name>>
gen(name) == <<"GeneralConfig", name>>
td(name) == <<"TextDetectorConfig", name>>
pp(name) == <<"PreprocessorConfig", name>>
mk(name) == <<"MaskerConfig", name>>

\* The leaf attributes of a profile: the fields of its groups.
LeavesOf(class) == {<<class, GroupFields(class)[i]>> : i \in DOMAIN GroupFields(class)}
Leaves == UNION {LeavesOf(ProfileGroups[g].class) : g \in DOMAIN ProfileGroups}

\* The values a field takes; 0 is its default.
FieldValues == {0, 1}

DefaultProfile == [f \in Leaves |-> 0]

\* The user edits one field of the profile.
set_profile_field(f, v) ==
    /\ profile' = [profile EXCEPT ![f] = v]
    /\ Cardinality({g \in Leaves : profile'[g] # 0}) <= MaxChanged
    /\ profile' # profile
    /\ UNCHANGED <<_sensitivity_filter, _current_profile_checksum, last_marked,
                   steps, image_file>>

-----------------------------------------------------------------------------
(* ProcessStep *)

\* A profile_sensitivity argument: a list of attributes, or None.
NoSensitivity == [none |-> TRUE, list |-> {}]
Sensitivity(list) == [none |-> FALSE, list |-> list]

\* ProcessStep.__init__: the filter is None for the sentinel None, and
\* attrs.filters.include(*profile_sensitivity) otherwise.
ProcessStep_init(profile_sensitivity) ==
    IF profile_sensitivity.none
    THEN [none |-> TRUE, attrs |-> {}]
    ELSE [none |-> FALSE, attrs |-> profile_sensitivity.list]

\* What asdict does with its filter on an attribute: no filter keeps it, an
\* include filter keeps it when it is one of the attributes included.
include_(filter, attribute) == filter.none \/ attribute \in filter.attrs

\* json.dumps(attrs.asdict(inst, filter=filter), sort_keys=True) of a group
\* instance: key and value of every field the filter lets through, in
\* sorted key order.  Keys are written as their rank in that order.
DumpGroup(p, filter, class) ==
    LET names == GroupFields(class)
        out[i \in 0 .. Len(names)] ==
            IF i = 0 THEN <<>>
            ELSE IF include_(filter, <<class, names[i]>>)
                 THEN out[i - 1] \o <<i, p[<<class, names[i]>>]>>
                 ELSE out[i - 1]
    IN  out[Len(names)]

\* The same for the profile.  asdict asks the filter about each attribute of
\* Profile first and descends, with the same filter, only into the instances
\* of the attributes it lets through.  100 and 101 stand for the braces
\* around a nested dict.
DumpProfile(p, filter) ==
    LET out[g \in 0 .. Len(ProfileGroups)] ==
            IF g = 0 THEN <<>>
            ELSE IF include_(filter, pro(ProfileGroups[g].name))
                 THEN out[g - 1] \o <<g, 100>>
                          \o DumpGroup(p, filter, ProfileGroups[g].class) \o <<101>>
                 ELSE out[g - 1]
    IN  out[Len(ProfileGroups)]

\* As serialized_data, but taken without the filter.
serialized_data_unfiltered(p, filter) == DumpProfile(p, ProcessStep_init(NoSensitivity))

serialized_data(p, filter) == DumpProfile(p, filter)

\* zlib.crc32 as a checksum of the serialized data, one token at a time;
\* of crc32 the model keeps that it is a function of the bytes into a fixed
\* range, not which inputs collide.
crc32(data) ==
    LET acc[i \in 0 .. Len(data)] ==
            IF i = 0 THEN 7 ELSE (acc[i - 1] * 31 + data[i] + 1) % 1000003
    IN  acc[Len(data)]

_profile_checksum(p) == <<crc32(serialized_data(p, _sensitivity_filter))>>

update_checksum ==
    /\ _current_profile_checksum' = _profile_checksum(profile)
    /\ last_marked' = <<profile>>
    /\ UNCHANGED <<profile, _sensitivity_filter, steps, image_file>>

is_profile_changed(p) == _current_profile_checksum # _profile_checksum(p)

-----------------------------------------------------------------------------
(* ImageFile *)

\* The Step enumeration, in its order.
Step ==
    << "input", "ai_mask", "initial_boxes", "final_boxes", "box_mask", "cut_mask",
       "mask_layers", "final_mask", "mask_overlay", "masked_image", "denoiser_mask",
       "denoised_image" >>

StepIndex(s) == CHOOSE i \in DOMAIN Step : Step[i] = s

\* The settings list as __init__ has accumulated it when it reaches the
\* statement that builds the tracker of the n-th step.
Settings(n) ==
    {gen("input_size_scale")}
    \cup (IF n >= 2 THEN {td("model_path")} ELSE {})
    \cup (IF n >= 3
          THEN {pp("box_min_size"), pp("suspicious_box_min_size"),
                pp("box_padding_initial"), pp("box_right_padding_initial")}
          ELSE {})
    \cup (IF n >= 4 THEN {pro("preprocessor")} ELSE {})
    \cup (IF n >= 7 THEN {mk("mask_growth_step_pixels"), mk("mask_growth_steps")} ELSE {})
    \cup (IF n >= 8
          THEN {mk("off_white_max_threshold"), mk("mask_improvement_threshold"),
                mk("mask_selection_fast"), mk("mask_max_standard_deviation")}
          ELSE {})
    \cup (IF n >= 11 THEN {pro("denoiser")} ELSE {})

\* The profile_sensitivity argument __init__ gives the tracker of a step.
StepSensitivity(s) ==
    IF s = "mask_overlay"
    THEN Sensitivity(Settings(StepIndex(s)) \cup {mk("debug_mask_color")})
    ELSE Sensitivity(Settings(StepIndex(s)))

\* ImageFile.__init__.  The class body only annotates steps, so the instance
\* has no such attribute: the first statement self.steps[Step.input] = ...
\* builds its ProcessStep and then raises AttributeError on self.steps.
ImageFile_init ==
    /\ image_file = "new"
    /\ IF steps = None
       THEN /\ image_file' = "AttributeError"
            /\ steps' = steps
       ELSE /\ image_file' = "constructed"
            /\ steps' = [s \in ToSet(Step) |-> ProcessStep_init(StepSensitivity(s))]
    /\ UNCHANGED <<profile, _sensitivity_filter, _current_profile_checksum, last_marked>>

-----------------------------------------------------------------------------
(* Specification of the stage trackers: a ProcessStep built with one of    *)
(* the sensitivity lists of ImageFile.__init__, or with none, under        *)
(* profile edits and update_checksum calls; and the construction of an     *)
(* ImageFile.                                                              *)

\* No tracker is looked at: the one at hand has the sentinel None.
NoSteps ==
    /\ profile = DefaultProfile
    /\ _sensitivity_filter = ProcessStep_init(NoSensitivity)
    /\ _current_profile_checksum = None
    /\ last_marked = None
    /\ steps = None
    /\ image_file = "new"

\* No page is looked at: an empty one.
NoPage ==
    /\ boxes = <<>>
    /\ extended_boxes = <<>>
    /\ merged_extended_boxes = <<>>
    /\ reference_boxes = <<>>
    /\ _image_size = None
    /\ metadata = None
    /\ call = "from_json"
    /\ error = ""
    /\ ncalls = 0

InitSteps ==
    /\ NoPage
    /\ profile = DefaultProfile
    /\ \E sensitivity \in {StepSensitivity(Step[i]) : i \in DOMAIN Step} \cup {NoSensitivity} :
           _sensitivity_filter = ProcessStep_init(sensitivity)
    /\ _current_profile_checksum = None
    /\ last_marked = None
    /\ steps = None
    /\ image_file = "new"

SetProfileField ==
    \E f \in Leaves, v \in FieldValues : set_profile_field(f, v) /\ UNCHANGED pagevars

UpdateChecksum == update_checksum /\ UNCHANGED pagevars

ConstructImageFile == ImageFile_init /\ UNCHANGED pagevars

NextSteps == SetProfileField \/ UpdateChecksum \/ ConstructImageFile

SpecSteps == InitSteps /\ [][NextSteps]_vars

-----------------------------------------------------------------------------
(* Specification of a page: PageData.from_json of a page the pipeline      *)
(* dumped (boxes inside the image, merged boxes resolved from the extended *)
(* ones), then any MaxCalls calls.                                         *)

\* Sizes <<width, height>> of the working images considered.
ImageSizes == {<<1, 1>>}

Init ==
    /\ \E size \in ImageSizes :
           /\ boxes \in AscendingListsUpTo(BoxesInside(size[1], size[2]), MaxBoxes)
           /\ metadata \in {None, size}
    /\ extended_boxes = boxes
    /\ merged_extended_boxes \in MergeLoop(ToSet(extended_boxes))
    /\ reference_boxes = merged_extended_boxes
    /\ _image_size = None
    /\ call = "from_json"
    /\ error = ""
    /\ ncalls = 0
    /\ NoSteps

\* One more call on the page.
Counted ==
    /\ ncalls < MaxCalls
    /\ ncalls' = ncalls + 1
    /\ UNCHANGED stepvars

GrowBoxes ==
    /\ Counted
    /\ \E padding \in Paddings, box_type \in BoxType : grow_boxes(padding, box_type)

RightPadBoxes ==
    /\ Counted
    /\ \E padding \in Paddings, box_type \in BoxType : right_pad_boxes(padding, box_type)

ResolveOverlaps == Counted /\ resolve_overlaps

Next == GrowBoxes \/ RightPadBoxes \/ ResolveOverlaps

Spec == Init /\ [][Next]_vars

-----------------------------------------------------------------------------
(* Specification of the overlap resolver alone: any list of well-formed    *)
(* boxes in extended_boxes, resolved, and resolved again on its own output. *)

InitResolve ==
    /\ \E size \in ImageSizes :
           /\ extended_boxes \in
                  AscendingListsUpTo(BoxesInside(size[1], size[2]), MaxResolveBoxes)
           /\ metadata = size
    /\ boxes = <<>>
    /\ merged_extended_boxes = <<>>
    /\ reference_boxes = <<>>
    /\ _image_size = None
    /\ call = "from_json"
    /\ error = ""
    /\ ncalls = 0
    /\ NoSteps

ResolveAgain == resolve_overlaps /\ UNCHANGED <<ncalls, stepvars>>

SetExtendedBoxes == set_extended_boxes /\ UNCHANGED <<ncalls, stepvars>>

NextResolve == ResolveAgain \/ SetExtendedBoxes

SpecResolve == InitResolve /\ [][NextResolve]_vars

-----------------------------------------------------------------------------
(* Properties of the overlap resolver, checked under SpecResolve. *)

Collections == <<boxes, extended_boxes, merged_extended_boxes, reference_boxes>>

\* The integer points a box covers (none when it is inverted).
PointsOf(box) == (box[1] .. box[3]) \X (box[2] .. box[4])

\* The integer points the boxes of a list cover together.
Covered(list) == UNION {PointsOf(list[i]) : i \in DOMAIN list}

\* The smallest box containing every box of a non-empty list.
BoundingBox(list) ==
    LET S == ToSet(list)
    IN  << CHOOSE v \in {b[1] : b \in S} : \A b \in S : v <= b[1],
           CHOOSE v \in {b[2] : b \in S} : \A b \in S : v <= b[2],
           CHOOSE v \in {b[3] : b \in S} : \A b \in S : v >= b[3],
           CHOOSE v \in {b[4] : b \in S} : \A b \in S : v >= b[4] >>

\* C1: after resolve_overlaps, whatever the order in which the working set
\* handed out its boxes, no two distinct boxes of merged_extended_boxes
\* overlap (touching edges count as overlap).
C1_NoOverlapAfterResolve ==
    call = "resolve_overlaps" =>
        \A i, j \in DOMAIN merged_extended_boxes :
            merged_extended_boxes[i] # merged_extended_boxes[j] =>
                ~boxes_overlap(merged_extended_boxes[i], merged_extended_boxes[j])

\* C2: resolve_overlaps is idempotent: run on extended_boxes set to its own
\* previous output, it produces the same set of boxes again.
C2_ResolveIdempotent ==
    [][(call = "set_extended_boxes" /\ call' = "resolve_overlaps") =>
           ToSet(merged_extended_boxes') = ToSet(merged_extended_boxes)]_vars

\* C3 as claimed: after resolve_overlaps the boxes of merged_extended_boxes
\* cover exactly the integer points the boxes of extended_boxes cover.
C3_UnionEqual ==
    call = "resolve_overlaps" =>
        Covered(merged_extended_boxes) = Covered(extended_boxes)

\* C3 as amended: after resolve_overlaps the boxes of merged_extended_boxes
\* cover every integer point the boxes of extended_boxes cover, and nothing
\* outside the bounding box of extended_boxes (they can cover points inside
\* it that no extended box covers: merge_boxes returns the bounding box).
C3_UnionCovered ==
    call = "resolve_overlaps" =>
        /\ Covered(extended_boxes) \subseteq Covered(merged_extended_boxes)
        /\ extended_boxes # <<>> =>
               Covered(merged_extended_boxes) \subseteq
                   PointsOf(BoundingBox(extended_boxes))
        /\ extended_boxes = <<>> => merged_extended_boxes = <<>>

\* C3's case: a merge happened and the merged boxes cover a point that no
\* extended box covers.
C3_Witness ==
    /\ call = "resolve_overlaps"
    /\ Len(merged_extended_boxes) < Cardinality(ToSet(extended_boxes))
    /\ Covered(merged_extended_boxes) # Covered(extended_boxes)

-----------------------------------------------------------------------------
(* Properties of a page, checked under Spec. *)

AllBoxes ==
    ToSet(boxes) \cup ToSet(extended_boxes) \cup ToSet(merged_extended_boxes)
        \cup ToSet(reference_boxes)

\* C4: after any grow_boxes and right_pad_boxes calls, every box of every
\* collection lies within [0, width] x [0, height] of the image.
C4_InsideImage ==
    _image_size # None =>
        \A b \in AllBoxes :
            /\ 0 <= b[1] /\ b[1] <= _image_size[1]
            /\ 0 <= b[3] /\ b[3] <= _image_size[1]
            /\ 0 <= b[2] /\ b[2] <= _image_size[2]
            /\ 0 <= b[4] /\ b[4] <= _image_size[2]

\* C5: grow_boxes and right_pad_boxes never produce an inverted box: every
\* box keeps x1 <= x2 and y1 <= y2, whatever the padding.
C5_NotInverted ==
    \A b \in AllBoxes : b[1] <= b[3] /\ b[2] <= b[4]

\* merged_extended_boxes holds, as a set, a result of the merge algorithm
\* applied to the current extended_boxes.
MergedDerivable ==
    \E merged_boxes \in MergeLoop(ToSet(extended_boxes)) :
        ToSet(merged_boxes) = ToSet(merged_extended_boxes)

GrowOrPad(types) ==
    \E padding \in Paddings, box_type \in types :
        grow_boxes(padding, box_type) \/ right_pad_boxes(padding, box_type)

C10_MissingImageSize ==
    [][(_image_size = None /\ GrowOrPad(BoxType)) =>
           /\ error' # ""
           /\ UNCHANGED Collections
           /\ _image_size' = None
      ]_vars

\* C10 as amended: grow_boxes and right_pad_boxes called while the image
\* size is unresolved resolve it themselves from the metadata of the image
\* file, cache it and go on without an error; only when the metadata holds
\* no size do they fail (AttributeError, not MissingImageSize), changing no
\* collection and leaving the size unresolved.
C10_ResolvedImplicitly ==
    [][(_image_size = None /\ GrowOrPad(BoxType)) =>
           IF metadata # None
           THEN error' = "" /\ _image_size' = metadata
           ELSE /\ error' = "AttributeError"
                /\ UNCHANGED Collections
                /\ _image_size' = None
      ]_vars

\* C10's case: the first call on the page was a grow_boxes, which resolved
\* the size and grew the boxes.
C10_Witness ==
    /\ ncalls = 1
    /\ call = "grow_boxes"
    /\ error = ""
    /\ _image_size # None
    /\ boxes # extended_boxes

-----------------------------------------------------------------------------
(* Properties of the stage trackers, checked under SpecSteps. *)

\* The profile fields a filter was told to track: the fields it names, every
\* field of a group it names, and every field when there is no filter.
TrackedFields(filter) ==
    IF filter.none THEN Leaves
    ELSE (filter.attrs \cap Leaves)
         \cup UNION {LeavesOf(ProfileGroups[g].class) :
                        g \in {h \in DOMAIN ProfileGroups :
                                  pro(ProfileGroups[h].name) \in filter.attrs}}

\* C7: once an ImageFile is constructed, its stage table holds a tracker for
\* every step, and for steps A before B in the canonical order the fields A
\* tracks are among the fields B tracks.
C7_CumulativeSensitivity ==
    image_file # "new" =>
        \A i, j \in DOMAIN Step :
            i < j =>
                /\ Step[i] \in DOMAIN steps
                /\ Step[j] \in DOMAIN steps
                /\ steps[Step[i]].attrs \subseteq steps[Step[j]].attrs

\* C8: is_profile_changed is true while update_checksum was never called,
\* false right after update_checksum with the same profile, and true as soon
\* as a field the tracker tracks differs from its value at the last
\* update_checksum.
C8_StaleTracking ==
    /\ last_marked = None => is_profile_changed(profile)
    /\ (last_marked # None /\ profile = last_marked[1]) => ~is_profile_changed(profile)
    /\ (/\ last_marked # None
        /\ \E f \in TrackedFields(_sensitivity_filter) : profile[f] # last_marked[1][f])
           => is_profile_changed(profile)

\* C9: a profile that agrees with the one given to the last update_checksum
\* on every field the tracker tracks has the same checksum, whatever the
\* other fields hold: is_profile_changed is false for it.
C9_ChecksumOfTrackedOnly ==
    (/\ last_marked # None
     /\ \A f \in TrackedFields(_sensitivity_filter) : profile[f] = last_marked[1][f])
        => ~is_profile_changed(profile)

\* C9's case: a tracker with a filter whose checksum covers some fields, and
\* a profile that differs from the marked one in a field it does not track.
C9_Witness ==
    /\ last_marked # None
    /\ ~_sensitivity_filter.none
    /\ pro("preprocessor") \in _sensitivity_filter.attrs
    /\ profile # last_marked[1]
    /\ \A f \in TrackedFields(_sensitivity_filter) : profile[f] = last_marked[1][f]
    /\ ~is_profile_changed(profile)

\* C11: constructing an ImageFile succeeds, and from then on steps holds a
\* tracker for exactly the twelve stages of Step.
C11_TableOfTwelveStages ==
    image_file # "new" =>
        /\ image_file = "constructed"
        /\ steps # None
        /\ DOMAIN steps = ToSet(Step)
        /\ Cardinality(DOMAIN steps) = Len(Step)

-----------------------------------------------------------------------------
(* Order of removal from the working set, checked under SpecResolve. *)

\* C12: the set of boxes resolve_overlaps leaves in merged_extended_boxes is
\* the same for every order in which the working set hands out the boxes of
\* extended_boxes: every other run on the same extended_boxes ends with the
\* same set.
C12_SameSetInEveryOrder ==
    call = "resolve_overlaps" =>
        \A merged_boxes \in MergeLoop(ToSet(extended_boxes)) :
            ToSet(merged_boxes) = ToSet(merged_extended_boxes)

-----------------------------------------------------------------------------
(* What each box operation leaves alone, checked under Spec. *)

\* The collection of a box kind.
CollectionOf(kind) ==
    CASE kind = "BOX" -> boxes
      [] kind = "EXTENDED_BOX" -> extended_boxes
      [] kind = "MERGED_EXT_BOX" -> merged_extended_boxes
      [] kind = "REFERENCE_BOX" -> reference_boxes

Distance(a, b) == IF a <= b THEN b - a ELSE a - b

\* C13: grow_boxes(p, kind) and right_pad_boxes(p, kind) leave the
\* collections of the three other kinds unchanged and keep the length and
\* the element order of the collection of kind (the box at each position is
\* the old box at that position with no coordinate moved by more than |p|);
\* right_pad_boxes moves nothing but x2; resolve_overlaps leaves boxes,
\* extended_boxes and reference_boxes unchanged.
C13_OnlyTargetChanges ==
    [][/\ \A padding \in Paddings, kind \in BoxType :
              (grow_boxes(padding, kind) \/ right_pad_boxes(padding, kind)) =>
                  LET before == CollectionOf(kind)
                      after == CollectionOf(kind)'
                  IN  /\ \A other \in BoxType \ {kind} :
                             CollectionOf(other)' = CollectionOf(other)
                      /\ Len(after) = Len(before)
                      /\ \A i \in DOMAIN before, c \in 1 .. 4 :
                             Distance(after[i][c], before[i][c]) <= Distance(padding, 0)
       /\ call' = "right_pad_boxes" =>
              \A kind \in BoxType :
                  /\ Len(CollectionOf(kind)') = Len(CollectionOf(kind))
                  /\ \A i \in DOMAIN CollectionOf(kind) :
                         /\ CollectionOf(kind)'[i][1] = CollectionOf(kind)[i][1]
                         /\ CollectionOf(kind)'[i][2] = CollectionOf(kind)[i][2]
                         /\ CollectionOf(kind)'[i][4] = CollectionOf(kind)[i][4]
       /\ call' = "resolve_overlaps" =>
              UNCHANGED <<boxes, extended_boxes, reference_boxes>>
      ]_vars

\* C13's case: the first call on a page with two different boxes was a
\* right_pad_boxes on the merged boxes, which moved x2 of the merged box and
\* nothing else: the reference box still shows the merged box as loaded.
C13_Witness ==
    /\ call = "right_pad_boxes"
    /\ error = ""
    /\ ncalls = 1
    /\ Len(extended_boxes) = 2
    /\ extended_boxes[1] # extended_boxes[2]
    /\ extended_boxes = boxes
    /\ Len(merged_extended_boxes) = 1
    /\ Len(reference_boxes) = 1
    /\ merged_extended_boxes[1][3] > reference_boxes[1][3]
    /\ merged_extended_boxes[1][1] = reference_boxes[1][1]
    /\ merged_extended_boxes[1][2] = reference_boxes[1][2]
    /\ merged_extended_boxes[1][4] = reference_boxes[1][4]

====
